---- MODULE Spec2Model ----
(***************************************************************************)
(* SustainAI Tips frontend, pages/index.tsx: the Home component.           *)
(*                                                                         *)
(*   - the request coordinator: the five useState fields and the two       *)
(*     halves of the async handler handleSubmit (before and after the      *)
(*     await of axios.post);                                               *)
(*   - the tip categorizer: the forEach pass of renderTipCards over the    *)
(*     lines in tips.                                                      *)
(*                                                                         *)
(* A line of text is a sequence of tokens.  A token is one of the          *)
(* characters the code inspects ("#", " ", a digit, ".", "(", ")") or a    *)
(* word, i.e. a maximal run of other characters.  Lines hold no newline.   *)
(***************************************************************************)
EXTENDS Integers, Sequences, FiniteSets, TLC

VARIABLES
    location,          \* useState('')                       index.tsx:18
    habits,            \* useState('')                       index.tsx:19
    tips,              \* useState<string[]>([])             index.tsx:20
    loading,           \* useState(false)                    index.tsx:21
    error,             \* useState<string | null>(null)      index.tsx:22
    calls,             \* the executions of handleSubmit suspended at the await
    shownBefore,       \* history: what the page showed when the last submission started
    idx,               \* forEach: number of lines of tips already visited
    currentCategory,   \* let currentCategory = ''           index.tsx:64
    currentTips,       \* let currentTips: string[] = []     index.tsx:65
    categories,        \* const categories = {...}           index.tsx:55
    currentFrom,       \* history: the positions in tips of the lines of currentTips
    categoriesFrom     \* history: the positions in tips of the lines of each bucket

pageVars == <<location, habits, tips, loading, error, calls, shownBefore>>
passVars == <<idx, currentCategory, currentTips, categories, currentFrom, categoriesFrom>>
vars == <<location, habits, tips, loading, error, calls, shownBefore,
          idx, currentCategory, currentTips, categories, currentFrom, categoriesFrom>>

----------------------------------------------------------------------------
(* Bounds of the model. *)

\* longest list of lines a response of the page specification carries
MaxRespLen == 2
\* cap on the executions of handleSubmit suspended at once
MaxInFlight == 2
\* longest list of lines the categorization pass is run on
MaxLen == 4

----------------------------------------------------------------------------
(* Text. *)

Null == "null"
ErrorMessage == "Failed to generate tips. Please try again."

\* values typed into the two form fields; "" is the empty field
FieldTexts == {"", "Nairobi", "I drive to work"}

QuickWins == <<"Quick", " ", "Wins">>
SustainableLiving == <<"Sustainable", " ", "Living">>
TransportationMobility == <<"Transportation", " ", "&", " ", "Mobility">>
CommunitySocialImpact == <<"Community", " ", "&", " ", "Social", " ", "Impact">>
EnvironmentalProtection == <<"Environmental", " ", "Protection">>

\* Object.keys(categories)
CategoryNames ==
    {QuickWins, SustainableLiving, TransportationMobility,
     CommunitySocialImpact, EnvironmentalProtection}

EmptyCategories == [c \in CategoryNames |-> <<>>]

\* "## 1. Quick Wins"
LineQuick == <<"#", "#", " ", "1", ".", " ", "Quick", " ", "Wins">>
\* "## 12.Quick Wins (fast)"
LineQuickNote == <<"#", "#", " ", "1", "2", ".", "Quick", " ", "Wins", " ", "(", "fast", ")">>
\* "## 2. Sustainable Living"
LineLiving == <<"#", "#", " ", "2", ".", " ", "Sustainable", " ", "Living">>
\* "## 3. Other Ideas"
LineOther == <<"#", "#", " ", "3", ".", " ", "Other", " ", "Ideas">>
\* "## Notes"
LineNotes == <<"#", "#", " ", "Notes">>
\* "Turn off lights"
LineLights == <<"Turn", " ", "off", " ", "lights">>
\* "# 1. Quick Wins"
LineOneHash == <<"#", " ", "1", ".", " ", "Quick", " ", "Wins">>

Lines ==
    {LineQuick, LineQuickNote, LineLiving, LineOther, LineNotes,
     LineLights, LineOneHash}

\* the lines the responses of the page specification are made of
ResponseLines == {LineQuick, LineLights}

SeqsUpTo(S, n) == UNION {[1..k -> S] : k \in 0..n}

Responses == SeqsUpTo(ResponseLines, MaxRespLen)

PassInputs == SeqsUpTo(Lines, MaxLen) \ {<<>>}

----------------------------------------------------------------------------
(* The request coordinator: Home's state and handleSubmit. *)

NoCalls == <<>>

Remove(s, i) == SubSeq(s, 1, i - 1) \o SubSeq(s, i + 1, Len(s))

PassIdle ==
    /\ idx = 0
    /\ currentCategory = <<>>
    /\ currentTips = <<>>
    /\ categories = EmptyCategories
    /\ currentFrom = <<>>
    /\ categoriesFrom = EmptyCategories

\* what the page displays: the error banner (index.tsx:209), the tips section
\* (index.tsx:218), or neither
Shown ==
    IF error # Null THEN "error"
    ELSE IF tips # <<>> THEN "results"
    ELSE "nothing"

PageInit ==
    /\ location = ""
    /\ habits = ""
    /\ tips = <<>>
    /\ loading = FALSE
    /\ error = Null
    /\ calls = NoCalls
    /\ shownBefore = "nothing"

\* onChange={(e) => setLocation(e.target.value)}
setLocation(v) ==
    /\ v # location
    /\ location' = v
    /\ UNCHANGED <<habits, tips, loading, error, calls, shownBefore>>
    /\ UNCHANGED passVars

\* onChange={(e) => setHabits(e.target.value)}
setHabits(v) ==
    /\ v # habits
    /\ habits' = v
    /\ UNCHANGED <<location, tips, loading, error, calls, shownBefore>>
    /\ UNCHANGED passVars

\* CanSubmit with a submit button that lacks disabled={loading}
CanSubmitWhileLoading ==
    /\ location # ""
    /\ habits # ""

\* The submit control accepts a submission: the button is not disabled and
\* both required fields are filled in.
CanSubmit ==
    /\ ~loading
    /\ location # ""
    /\ habits # ""

\* handleSubmit without its setError(null)
handleSubmitKeepsError ==
    /\ CanSubmit
    /\ Len(calls) < MaxInFlight
    /\ shownBefore' = Shown
    /\ loading' = TRUE
    /\ tips' = <<>>
    /\ calls' = Append(calls, [status |-> "pending", location |-> location,
                               habits |-> habits, data |-> <<>>])
    /\ UNCHANGED <<location, habits, error>>
    /\ UNCHANGED passVars

\* handleSubmit without its setTips([])
handleSubmitKeepsTips ==
    /\ CanSubmit
    /\ Len(calls) < MaxInFlight
    /\ shownBefore' = Shown
    /\ loading' = TRUE
    /\ error' = Null
    /\ calls' = Append(calls, [status |-> "pending", location |-> location,
                               habits |-> habits, data |-> <<>>])
    /\ UNCHANGED <<location, habits, tips>>
    /\ UNCHANGED passVars

\* handleSubmit up to the await: the three state updates, then axios.post is
\* issued and the handler is suspended.
handleSubmit ==
    /\ CanSubmit
    /\ Len(calls) < MaxInFlight
    /\ shownBefore' = Shown
    /\ loading' = TRUE
    /\ error' = Null
    /\ tips' = <<>>
    /\ calls' = Append(calls, [status |-> "pending", location |-> location,
                               habits |-> habits, data |-> <<>>])
    /\ UNCHANGED <<location, habits>>
    /\ UNCHANGED passVars

\* The promise of axios.post is fulfilled: a success response whose
\* data.tips is the list of lines d.
postResolves(i, d) ==
    /\ i \in 1..Len(calls)
    /\ calls[i].status = "pending"
    /\ calls' = [calls EXCEPT ![i].status = "resolved", ![i].data = d]
    /\ UNCHANGED <<location, habits, tips, loading, error, shownBefore>>
    /\ UNCHANGED passVars

\* The promise of axios.post is rejected: a network error or a response
\* with a non-success status.
postRejects(i) ==
    /\ i \in 1..Len(calls)
    /\ calls[i].status = "pending"
    /\ calls' = [calls EXCEPT ![i].status = "rejected"]
    /\ UNCHANGED <<location, habits, tips, loading, error, shownBefore>>
    /\ UNCHANGED passVars

\* handleSubmitTry without its setTips(response.data.tips)
handleSubmitTryDropsTips(i) ==
    /\ i \in 1..Len(calls)
    /\ calls[i].status = "resolved"
    /\ loading' = FALSE
    /\ calls' = Remove(calls, i)
    /\ UNCHANGED <<location, habits, tips, error, shownBefore>>
    /\ UNCHANGED passVars

\* handleSubmit after the await, success: the rest of the try block, then
\* the finally block.
handleSubmitTry(i) ==
    /\ i \in 1..Len(calls)
    /\ calls[i].status = "resolved"
    /\ tips' = calls[i].data
    /\ loading' = FALSE
    /\ calls' = Remove(calls, i)
    /\ UNCHANGED <<location, habits, error, shownBefore>>
    /\ UNCHANGED passVars

\* handleSubmitCatch that posts the request again
handleSubmitCatchRetries(i) ==
    /\ i \in 1..Len(calls)
    /\ calls[i].status = "rejected"
    /\ error' = ErrorMessage
    /\ calls' = [calls EXCEPT ![i].status = "pending"]
    /\ UNCHANGED <<location, habits, tips, loading, shownBefore>>
    /\ UNCHANGED passVars

\* handleSubmitCatch with setLoading(false) left at the end of the try block
\* instead of in a finally block
handleSubmitCatchNoFinally(i) ==
    /\ i \in 1..Len(calls)
    /\ calls[i].status = "rejected"
    /\ error' = ErrorMessage
    /\ calls' = Remove(calls, i)
    /\ UNCHANGED <<location, habits, tips, loading, shownBefore>>
    /\ UNCHANGED passVars

\* handleSubmit after the await, failure: the catch block, then the finally
\* block.
handleSubmitCatch(i) ==
    /\ i \in 1..Len(calls)
    /\ calls[i].status = "rejected"
    /\ error' = ErrorMessage
    /\ loading' = FALSE
    /\ calls' = Remove(calls, i)
    /\ UNCHANGED <<location, habits, tips, shownBefore>>
    /\ UNCHANGED passVars

\* the continuation of a settled call runs
handleSubmitResumes ==
    \E i \in 1..Len(calls) : handleSubmitTry(i) \/ handleSubmitCatch(i)

Next ==
    \/ \E v \in FieldTexts : setLocation(v)
    \/ \E v \in FieldTexts : setHabits(v)
    \/ handleSubmit
    \/ \E i \in 1..Len(calls) : \E d \in Responses : postResolves(i, d)
    \/ \E i \in 1..Len(calls) : postRejects(i)
    \/ \E i \in 1..Len(calls) : handleSubmitTry(i)
    \/ \E i \in 1..Len(calls) : handleSubmitCatch(i)

Init == PageInit /\ PassIdle

Spec == Init /\ [][Next]_vars

\* The continuation of a settled promise is a microtask: once it is queued
\* it runs.
FairSpec == Spec /\ WF_vars(handleSubmitResumes)

----------------------------------------------------------------------------
(* The tip categorizer: the forEach pass of renderTipCards. *)

Min(S) == CHOOSE x \in S : \A y \in S : x <= y
Max(S) == CHOOSE x \in S : \A y \in S : x >= y

\* \d
IsDigit(ch) == ch \in {"0", "1", "2", "3", "4", "5", "6", "7", "8", "9"}

\* \s
IsSpace(ch) == ch = " "

\* tip.startsWith('## ')
startsWithMarker(tip) ==
    /\ Len(tip) >= 3
    /\ tip[1] = "#"
    /\ tip[2] = "#"
    /\ tip[3] = " "

\* the first position from p on that holds no digit (\d+ is greedy)
DigitsEnd(tip, p) ==
    LET rest == {q \in p..Len(tip) : ~IsDigit(tip[q])}
    IN  IF rest = {} THEN Len(tip) + 1 ELSE Min(rest)

\* the first position from p on that holds no blank (\s* is greedy)
SpacesEnd(tip, p) ==
    LET rest == {q \in p..Len(tip) : ~IsSpace(tip[q])}
    IN  IF rest = {} THEN Len(tip) + 1 ELSE Min(rest)

\* /## \d+\./ matched at position p: the position after the dot, else 0
OrdinalEnd(tip, p) ==
    IF /\ p + 2 <= Len(tip)
       /\ tip[p] = "#"
       /\ tip[p + 1] = "#"
       /\ tip[p + 2] = " "
    THEN LET e == DigitsEnd(tip, p + 3)
         IN  IF e > p + 3 /\ e <= Len(tip) /\ tip[e] = "." THEN e + 1 ELSE 0
    ELSE 0

\* /\s*\(.*\)$/ matches the text from position k to the end
NoteAt(tip, k) ==
    LET j == SpacesEnd(tip, k)
    IN  /\ j < Len(tip)
        /\ tip[j] = "("
        /\ tip[Len(tip)] = ")"

\* the positions where /## \d+\.\s*(.*?)(?:\s*\(.*\))?$/ can start; the
\* tail of the pattern matches any rest of a line
MatchStarts(tip) == {p \in 1..Len(tip) : OrdinalEnd(tip, p) # 0}

\* categoryMatch is not null
Matches(tip) == MatchStarts(tip) # {}

\* categoryMatch[1]: the group (.*?) of the leftmost match.  It starts after
\* the blanks that follow the dot and is the shortest text that is followed
\* by the end of the line or by a parenthesized note that ends the line.
MatchedName(tip) ==
    LET r == SpacesEnd(tip, OrdinalEnd(tip, Min(MatchStarts(tip))))
        k == Min({k \in r..(Len(tip) + 1) : k = Len(tip) + 1 \/ NoteAt(tip, k)})
    IN  SubSeq(tip, r, k - 1)

\* renderTipCards with let currentCategory = 'Quick Wins'
renderTipCardsPreset ==
    /\ tips \in PassInputs
    /\ location = "Nairobi"
    /\ habits = "I drive to work"
    /\ loading = FALSE
    /\ error = Null
    /\ calls = NoCalls
    /\ shownBefore = "nothing"
    /\ idx = 0
    /\ currentCategory = QuickWins
    /\ currentTips = <<>>
    /\ categories = EmptyCategories
    /\ currentFrom = <<>>
    /\ categoriesFrom = EmptyCategories

\* A pass of renderTipCards begins: the page shows a non-empty result set
\* (tips.length > 0), and the locals are fresh.
renderTipCards ==
    /\ tips \in PassInputs
    /\ location = "Nairobi"
    /\ habits = "I drive to work"
    /\ loading = FALSE
    /\ error = Null
    /\ calls = NoCalls
    /\ shownBefore = "nothing"
    /\ PassIdle

\* the element forEach hands to the callback next
tip == tips[idx + 1]

\* forEachHeader that keeps the current category when the extracted name is
\* not a key of categories
forEachHeaderIgnoresUnknown ==
    /\ idx < Len(tips)
    /\ startsWithMarker(tip)
    /\ Matches(tip)
    /\ idx' = idx + 1
    /\ IF MatchedName(tip) \in CategoryNames
       THEN /\ currentCategory' = MatchedName(tip)
            /\ currentTips' = <<>>
            /\ currentFrom' = <<>>
       ELSE UNCHANGED <<currentCategory, currentTips, currentFrom>>
    /\ UNCHANGED <<categories, categoriesFrom>>
    /\ UNCHANGED pageVars

\* forEachHeader that also empties the bucket of the extracted name
forEachHeaderEmptiesBucket ==
    /\ idx < Len(tips)
    /\ startsWithMarker(tip)
    /\ Matches(tip)
    /\ idx' = idx + 1
    /\ currentCategory' = MatchedName(tip)
    /\ currentTips' = <<>>
    /\ currentFrom' = <<>>
    /\ IF MatchedName(tip) \in CategoryNames
       THEN /\ categories' = [categories EXCEPT ![MatchedName(tip)] = <<>>]
            /\ categoriesFrom' = [categoriesFrom EXCEPT ![MatchedName(tip)] = <<>>]
       ELSE UNCHANGED <<categories, categoriesFrom>>
    /\ UNCHANGED pageVars

\* the callback on a line that starts with '## ' and matches the pattern:
\* the extracted name becomes current and a fresh accumulator is started
forEachHeader ==
    /\ idx < Len(tips)
    /\ startsWithMarker(tip)
    /\ Matches(tip)
    /\ idx' = idx + 1
    /\ currentCategory' = MatchedName(tip)
    /\ currentTips' = <<>>
    /\ currentFrom' = <<>>
    /\ UNCHANGED <<categories, categoriesFrom>>
    /\ UNCHANGED pageVars

\* the callback on a line that starts with '## ' and does not match the
\* pattern: nothing changes
forEachHeaderNoMatch ==
    /\ idx < Len(tips)
    /\ startsWithMarker(tip)
    /\ ~Matches(tip)
    /\ idx' = idx + 1
    /\ UNCHANGED <<currentCategory, currentTips, categories, currentFrom, categoriesFrom>>
    /\ UNCHANGED pageVars

\* currentCategory && Object.keys(categories).includes(currentCategory)
CategoryIsKnown ==
    /\ currentCategory # <<>>
    /\ currentCategory \in CategoryNames

\* forEachPush with unshift in place of push
forEachUnshift ==
    /\ idx < Len(tips)
    /\ ~startsWithMarker(tip)
    /\ CategoryIsKnown
    /\ idx' = idx + 1
    /\ currentTips' = <<tip>> \o currentTips
    /\ currentFrom' = <<idx + 1>> \o currentFrom
    /\ categories' = [categories EXCEPT ![currentCategory] = currentTips']
    /\ categoriesFrom' = [categoriesFrom EXCEPT ![currentCategory] = currentFrom']
    /\ UNCHANGED currentCategory
    /\ UNCHANGED pageVars

\* the callback on any other line while the current category is a key of
\* categories: the line is pushed and the accumulator becomes the bucket
forEachPush ==
    /\ idx < Len(tips)
    /\ ~startsWithMarker(tip)
    /\ CategoryIsKnown
    /\ idx' = idx + 1
    /\ currentTips' = Append(currentTips, tip)
    /\ currentFrom' = Append(currentFrom, idx + 1)
    /\ categories' = [categories EXCEPT ![currentCategory] = currentTips']
    /\ categoriesFrom' = [categoriesFrom EXCEPT ![currentCategory] = currentFrom']
    /\ UNCHANGED currentCategory
    /\ UNCHANGED pageVars

\* the callback on any other line otherwise: nothing changes
forEachSkip ==
    /\ idx < Len(tips)
    /\ ~startsWithMarker(tip)
    /\ ~CategoryIsKnown
    /\ idx' = idx + 1
    /\ UNCHANGED <<currentCategory, currentTips, categories, currentFrom, categoriesFrom>>
    /\ UNCHANGED pageVars

PassNext ==
    \/ forEachHeader
    \/ forEachHeaderNoMatch
    \/ forEachPush
    \/ forEachSkip

PassSpec == renderTipCards /\ [][PassNext]_vars

\* the cards rendered after the pass: categoryTips.length > 0
Cards == {c \in CategoryNames : categories[c] # <<>>}

----------------------------------------------------------------------------
(* Properties of the request coordinator. *)

Pending(i) == calls[i].status = "pending"
Settled(i) == calls[i].status \in {"resolved", "rejected"}

\* C1: from the first step of handleSubmit until its request settles, so
\* while the call is pending, loading is true, error is null and tips is
\* the empty list, whatever the page showed before.
C1_LoadingAndClearedWhilePending ==
    \A i \in 1..Len(calls) :
        Pending(i) => (loading /\ error = Null /\ tips = <<>>)

\* a submission that started while the error banner was shown is pending
C1_Witness ==
    /\ calls # NoCalls
    /\ Pending(1)
    /\ shownBefore = "error"

\* C2: when handleSubmit completes for a rejected request, error is the
\* fixed message, tips is empty, loading is false and no request is left in
\* flight (none was posted again).
C2_FailureEndsIdleWithError ==
    [][\A i \in 1..Len(calls) :
          (calls[i].status = "rejected" /\ calls' # calls) =>
              /\ error' = ErrorMessage
              /\ tips' = <<>>
              /\ loading' = FALSE
              /\ calls' = NoCalls]_vars

\* a request failed after results had been on display
C2_Witness ==
    /\ error = ErrorMessage
    /\ tips = <<>>
    /\ ~loading
    /\ calls = NoCalls
    /\ shownBefore = "results"

\* C3: when handleSubmit completes for a fulfilled request, tips is exactly
\* the list of lines of the response, error is null and loading is false.
C3_SuccessReplacesTips ==
    [][\A i \in 1..Len(calls) :
          (calls[i].status = "resolved" /\ calls' # calls) =>
              /\ tips' = calls[i].data
              /\ error' = Null
              /\ loading' = FALSE]_vars

\* a second result set is on display
C3_Witness ==
    /\ tips # <<>>
    /\ error = Null
    /\ ~loading
    /\ calls = NoCalls
    /\ shownBefore = "results"

\* C4: at most one execution of handleSubmit is in flight, and loading is
\* true (the submit control disabled) for as long as it is.
C4_AtMostOneInFlight ==
    /\ Len(calls) <= 1
    /\ calls # NoCalls => loading

\* a call is in flight while both fields are filled in: the disabled
\* button alone stands in the way of a second submission
C4_Witness ==
    /\ Len(calls) = 1
    /\ location # ""
    /\ habits # ""
    /\ ~CanSubmit

\* C9: at most one of loading, error # null, tips # [] holds.
C9_AtMostOneOfLoadingErrorTips ==
    /\ ~(loading /\ error # Null)
    /\ ~(loading /\ tips # <<>>)
    /\ ~(error # Null /\ tips # <<>>)

\* results are on display after a submission that started from the error
\* banner
C9_Witness ==
    /\ tips # <<>>
    /\ ~loading
    /\ shownBefore = "error"

\* C10: once the request of a submission has settled, loading = false
\* follows.
C10_SettledLeadsToNotLoading ==
    (\E i \in 1..Len(calls) : Settled(i)) ~> ~loading

\* a rejected request whose continuation has not run yet
C10_Witness ==
    /\ calls # NoCalls
    /\ calls[1].status = "rejected"
    /\ loading

----------------------------------------------------------------------------
(* Properties of the tip categorizer. *)

\* line k of tips is a heading: it carries the marker and matches the
\* pattern marker + ordinal + separator + name
IsHeading(k) == startsWithMarker(tips[k]) /\ Matches(tips[k])

\* line k is a heading that names one of the five categories
IsRecognizedHeading(k) == IsHeading(k) /\ MatchedName(tips[k]) \in CategoryNames

\* the last heading before line k, 0 when there is none
LastHeading(k) ==
    LET hs == {h \in 1..(k - 1) : IsHeading(h)}
    IN  IF hs = {} THEN 0 ELSE Max(hs)

\* the first heading after line h, Len(tips) + 1 when there is none
NextHeading(h) ==
    LET hs == {g \in (h + 1)..Len(tips) : IsHeading(g)}
    IN  IF hs = {} THEN Len(tips) + 1 ELSE Min(hs)

\* the name that is current when line k is visited, <<>> when none is
CurrentAt(k) ==
    IF LastHeading(k) = 0 THEN <<>> ELSE MatchedName(tips[LastHeading(k)])

\* the lines of tips at the positions K, in input order
RECURSIVE LinesAt(_)
LinesAt(K) ==
    IF K = {} THEN <<>>
    ELSE LET m == Max(K) IN Append(LinesAt(K \ {m}), tips[m])

\* the lines without the marker between heading h and the next heading
BodyOf(h) ==
    LinesAt({k \in (h + 1)..(NextHeading(h) - 1) : ~startsWithMarker(tips[k])})

\* the headings of category c
Occurrences(c) ==
    {h \in 1..Len(tips) : IsHeading(h) /\ MatchedName(tips[h]) = c}

\* the positions recorded for the buckets are those of their lines
BucketsAreLinesOfTips ==
    \A c \in CategoryNames :
        /\ Len(categoriesFrom[c]) = Len(categories[c])
        /\ \A j \in 1..Len(categories[c]) :
              /\ categoriesFrom[c][j] \in 1..idx
              /\ categories[c][j] = tips[categoriesFrom[c][j]]

\* C5: a line before the first recognized heading is in no bucket: every
\* bucket entry comes from a position with a recognized heading before it,
\* and all buckets are empty until a recognized heading has been visited.
C5_NothingBeforeFirstHeading ==
    /\ BucketsAreLinesOfTips
    /\ \A c \in CategoryNames : \A j \in 1..Len(categoriesFrom[c]) :
          \E h \in 1..categoriesFrom[c][j] : IsRecognizedHeading(h)
    /\ (\A h \in 1..idx : ~IsRecognizedHeading(h)) => Cards = {}

\* a finished pass whose input starts with a plain line that also occurs
\* after a recognized heading, where it was collected
C5_Witness ==
    /\ idx = Len(tips)
    /\ ~startsWithMarker(tips[1])
    /\ \E c \in CategoryNames : \E j \in 1..Len(categories[c]) :
          categories[c][j] = tips[1]

\* C6 as stated: after the pass, the bucket of a category whose heading
\* occurs more than once holds exactly the lines that follow the last
\* occurrence, and is empty when none follows it.
C6_LastOccurrenceWins ==
    idx = Len(tips) =>
        \A c \in CategoryNames :
            Cardinality(Occurrences(c)) > 1 =>
                categories[c] = BodyOf(Max(Occurrences(c)))

\* C6 as the code has it: after the pass, the bucket of a category whose
\* heading occurs more than once holds exactly the lines that follow the
\* last occurrence that is followed by at least one collected line; it is
\* empty only when no occurrence is.
C6_LastNonEmptyOccurrenceWins ==
    idx = Len(tips) =>
        \A c \in CategoryNames :
            Cardinality(Occurrences(c)) > 1 =>
                LET live == {h \in Occurrences(c) : BodyOf(h) # <<>>}
                IN  categories[c] = IF live = {} THEN <<>> ELSE BodyOf(Max(live))

\* a finished pass in which lines were collected under two occurrences of a
\* heading, and the bucket holds those of the later one only
C6_Witness ==
    /\ idx = Len(tips)
    /\ \E c \in CategoryNames : \E h \in Occurrences(c) :
          /\ h < Max(Occurrences(c))
          /\ BodyOf(h) # <<>>
          /\ BodyOf(Max(Occurrences(c))) # <<>>
          /\ categories[c] = BodyOf(Max(Occurrences(c)))

\* line k follows a heading whose name is not a category, with no
\* recognized heading in between
UnderUnrecognizedHeading(k) ==
    \E h \in 1..(k - 1) :
        /\ IsHeading(h)
        /\ ~IsRecognizedHeading(h)
        /\ \A g \in (h + 1)..(k - 1) : ~IsRecognizedHeading(g)

\* C7: a line that follows a heading with an unrecognized name, up to the
\* next recognized heading, is in no bucket.
C7_NothingUnderUnrecognizedHeading ==
    /\ BucketsAreLinesOfTips
    /\ \A c \in CategoryNames : \A j \in 1..Len(categoriesFrom[c]) :
          ~UnderUnrecognizedHeading(categoriesFrom[c][j])

\* a finished pass that filled a bucket and then dropped a plain line under
\* a later heading with an unrecognized name
C7_Witness ==
    /\ idx = Len(tips)
    /\ Cards # {}
    /\ \E k \in 1..Len(tips) :
          /\ ~startsWithMarker(tips[k])
          /\ UnderUnrecognizedHeading(k)
          /\ \E h \in 1..(k - 1) : IsRecognizedHeading(h)

\* C8 as stated: after the pass, each bucket is exactly the lines that do
\* not match the heading pattern and were visited while its category was
\* current, in input order.
C8_BucketIsAllNonHeadingLines ==
    idx = Len(tips) =>
        \A c \in CategoryNames :
            categories[c] =
                LinesAt({k \in 1..Len(tips) : ~IsHeading(k) /\ CurrentAt(k) = c})

\* C8 as the code has it: right after a line without the marker is visited
\* while a recognized category is current, the bucket of that category is
\* exactly the lines without the marker that follow the latest heading, in
\* input order, the line just visited last.
C8_BucketIsLinesSinceHeading ==
    (/\ idx >= 1
     /\ ~startsWithMarker(tips[idx])
     /\ CurrentAt(idx) \in CategoryNames) =>
        /\ categories[CurrentAt(idx)] =
              LinesAt({k \in (LastHeading(idx) + 1)..idx : ~startsWithMarker(tips[k])})
        /\ categories[CurrentAt(idx)][Len(categories[CurrentAt(idx)])] = tips[idx]

\* two different lines have just been collected under one heading, with a
\* line that carries the marker but is no heading dropped between them
C8_Witness ==
    /\ idx >= 4
    /\ ~startsWithMarker(tips[idx])
    /\ CurrentAt(idx) \in CategoryNames
    /\ Len(categories[CurrentAt(idx)]) = 2
    /\ categories[CurrentAt(idx)][1] # categories[CurrentAt(idx)][2]
    /\ \E k \in (LastHeading(idx) + 1)..idx : startsWithMarker(tips[k])

====
